---- MODULE Spec2Model ----
(***************************************************************************)
(* Model of the file manager of main.go: the thumbnail key mapping, the    *)
(* thumbnail endpoint (serve-or-generate), the upload handler and the      *)
(* index listing, running as concurrent HTTP handlers over one bucket.     *)
(*                                                                         *)
(* A string is a sequence of one-character strings, so that the path       *)
(* functions are computed character by character as the Go library does.   *)
(* The bytes of an object are a sequence of tokens: <<"c1">> is an         *)
(* uploaded file, <<"T","c1">> the JPEG thumbnail made from it.            *)
(***************************************************************************)
EXTENDS Naturals, Sequences, FiniteSets

\* ------------------------------------------------------------------------
\* Bounds of the model
\* ------------------------------------------------------------------------

\* How many requests are served in one behaviour.
MaxReq == 2

\* ------------------------------------------------------------------------
\* Strings
\* ------------------------------------------------------------------------

EmptyStr == <<>>

\* strings.HasPrefix
HasPrefix(s, prefix) ==
    /\ Len(s) >= Len(prefix)
    /\ SubSeq(s, 1, Len(prefix)) = prefix

\* strings.HasSuffix
HasSuffix(s, suffix) ==
    /\ Len(s) >= Len(suffix)
    /\ SubSeq(s, Len(s) - Len(suffix) + 1, Len(s)) = suffix

\* strings.TrimPrefix
TrimPrefix(s, prefix) ==
    IF HasPrefix(s, prefix) THEN SubSeq(s, Len(prefix) + 1, Len(s)) ELSE s

LowerChar(c) ==
    CASE c = "A" -> "a"
      [] c = "B" -> "b"
      [] c = "G" -> "g"
      [] c = "J" -> "j"
      [] c = "M" -> "m"
      [] c = "P" -> "p"
      [] c = "V" -> "v"
      [] OTHER -> c

\* strings.ToLower
ToLower(s) == [i \in 1..Len(s) |-> LowerChar(s[i])]

\* hasSuffix(name, suffixes...): case-insensitive, any of the suffixes
hasSuffix(name, suffixes) ==
    \E s \in suffixes : HasSuffix(ToLower(name), ToLower(s))

\* path.Ext: scan back from the end to the last dot of the final element
RECURSIVE ExtScan(_, _)
ExtScan(p, i) ==
    IF i < 1 \/ p[i] = "/" THEN EmptyStr
    ELSE IF p[i] = "." THEN SubSeq(p, i, Len(p))
    ELSE ExtScan(p, i - 1)

Ext(p) == ExtScan(p, Len(p))

\* The inner loop of path.Clean's ".." case: back up to the previous "/"
RECURSIVE Backtrack(_, _)
Backtrack(out, dotdot) ==
    IF Len(out) > dotdot /\ out[Len(out)] # "/"
    THEN Backtrack(SubSeq(out, 1, Len(out) - 1), dotdot)
    ELSE out

\* The end of the path element that starts at r (1-based, exclusive end)
RECURSIVE ElemEnd(_, _)
ElemEnd(p, r) ==
    IF r <= Len(p) /\ p[r] # "/" THEN ElemEnd(p, r + 1) ELSE r

\* The main loop of path.Clean; r is the 1-based read position, out the
\* output written so far, dotdot the length of out that ".." cannot remove.
RECURSIVE CleanLoop(_, _, _, _, _)
CleanLoop(p, r, out, dotdot, rooted) ==
    LET n == Len(p) IN
    IF r > n THEN out
    ELSE IF p[r] = "/" THEN CleanLoop(p, r + 1, out, dotdot, rooted)
    ELSE IF p[r] = "." /\ (r = n \/ p[r + 1] = "/")
         THEN CleanLoop(p, r + 1, out, dotdot, rooted)
    ELSE IF p[r] = "." /\ p[r + 1] = "." /\ (r + 1 = n \/ p[r + 2] = "/")
         THEN IF Len(out) > dotdot
              THEN CleanLoop(p, r + 2,
                             Backtrack(SubSeq(out, 1, Len(out) - 1), dotdot),
                             dotdot, rooted)
              ELSE IF ~rooted
              THEN LET o2 == (IF Len(out) > 0 THEN Append(out, "/") ELSE out)
                             \o <<".", ".">>
                   IN  CleanLoop(p, r + 2, o2, Len(o2), rooted)
              ELSE CleanLoop(p, r + 2, out, dotdot, rooted)
    ELSE LET sep == (rooted /\ Len(out) # 1) \/ (~rooted /\ Len(out) # 0)
             e   == ElemEnd(p, r)
             o2  == (IF sep THEN Append(out, "/") ELSE out) \o SubSeq(p, r, e - 1)
         IN  CleanLoop(p, e, o2, dotdot, rooted)

\* path.Clean
Clean(p) ==
    IF p = EmptyStr THEN <<".">>
    ELSE LET rooted == p[1] = "/"
             out    == IF rooted
                       THEN CleanLoop(p, 2, <<"/">>, 1, TRUE)
                       ELSE CleanLoop(p, 1, EmptyStr, 0, FALSE)
         IN  IF out = EmptyStr THEN <<".">> ELSE out

\* path.Join of two elements: empty elements are dropped, the rest joined
\* with "/" and cleaned; all empty gives "".
Join(a, b) ==
    IF a = EmptyStr /\ b = EmptyStr THEN EmptyStr
    ELSE IF a = EmptyStr THEN Clean(b)
    ELSE IF b = EmptyStr THEN Clean(a)
    ELSE Clean(a \o <<"/">> \o b)

ThumbDir == <<"t", "h", "u", "m", "b">>
ThumbPrefix == ThumbDir \o <<"/">>
DotJpg == <<".", "j", "p", "g">>

\* The extension lists of the handlers' hasSuffix calls
VideoExts ==
    { <<".", "m", "p", "4">>, <<".", "m", "o", "v">>,
      <<".", "m", "k", "v">>, <<".", "w", "e", "b", "m">> }

ImageExts ==
    { <<".", "j", "p", "g">>, <<".", "j", "p", "e", "g">>,
      <<".", "p", "n", "g">>, <<".", "g", "i", "f">>,
      <<".", "w", "e", "b", "p">> }

\* getThumbPath converts "folder/video.mp4" -> "thumb/folder/video.jpg"
getThumbPath(originalPath) ==
    LET ext == Ext(originalPath)
        nameWithoutExt == SubSeq(originalPath, 1, Len(originalPath) - Len(ext))
    IN  Join(ThumbDir, nameWithoutExt \o DotJpg)

\* ------------------------------------------------------------------------
\* Object bytes and the codecs
\* ------------------------------------------------------------------------

NoData == <<>>

\* imaging.Decode succeeds on the bytes of an image: an uploaded picture or
\* a JPEG this program encoded; not on "bad" bytes nor on a raw frame.
Decodable(data) == data # NoData /\ Head(data) \in {"c1", "c2", "T"}

\* imaging.Resize to width 300 followed by imaging.Encode as JPEG
ResizeEncode(data) == <<"T">> \o data

\* The outcomes of generateVideoThumbnail that the environment decides:
\* "fail" (ffmpeg, or a temp file, fails), "raw" (the frame ffmpeg wrote
\* does not decode and is returned as it is), "ok".
VideoOutcomes == {"fail", "raw", "ok"}

\* generateVideoThumbnail: [err, data]
generateVideoThumbnail(video, vres) ==
    IF vres = "fail" THEN [err |-> TRUE, data |-> NoData]
    ELSE LET imgData == <<"F">> \o video
         IN  IF vres = "raw" THEN [err |-> FALSE, data |-> imgData]
             ELSE [err |-> FALSE, data |-> ResizeEncode(imgData)]

\* ------------------------------------------------------------------------
\* The bucket
\* ------------------------------------------------------------------------

\* What a Writer's Write and Close can do: store the object, fail in Write
\* (the error the handlers look at), or fail in Close (which they ignore).
WriteOutcomes == {"ok", "writeErr", "closeErr"}

EmptyBucket == [k \in {} |-> NoData]

Exists(bucket, name) == name \in DOMAIN bucket

\* A write that appends to the object already stored under the name
StorePut_Mixed(bucket, name, data, wres) ==
    IF wres = "ok"
    THEN [k \in DOMAIN bucket \cup {name} |->
            IF k # name THEN bucket[k]
            ELSE IF name \in DOMAIN bucket THEN bucket[name] \o data ELSE data]
    ELSE bucket

\* A write that drops the object when one is already stored under the name
StorePut_KeepFirst(bucket, name, data, wres) ==
    IF wres = "ok" /\ name \notin DOMAIN bucket
    THEN [k \in DOMAIN bucket \cup {name} |-> IF k = name THEN data ELSE bucket[k]]
    ELSE bucket

\* Object.NewWriter, Write, Close: overwrite the object, or leave the bucket
\* as it was when the write fails.
StorePut(bucket, name, data, wres) ==
    IF wres = "ok"
    THEN [k \in DOMAIN bucket \cup {name} |-> IF k = name THEN data ELSE bucket[k]]
    ELSE bucket

\* ------------------------------------------------------------------------
\* Responses
\* ------------------------------------------------------------------------

Resp(status, ctype, cache, loc, body, files) ==
    [status |-> status, ctype |-> ctype, cache |-> cache, loc |-> loc,
     body |-> body, files |-> files]

NoResp == Resp(0, "", "", "", NoData, {})

\* http.Error
HttpError(msg, code) == Resp(code, "text/plain", "", "", <<msg>>, {})

\* http.NotFound
NotFound == HttpError("404 page not found", 404)

\* http.Redirect(w, r, "/static/file-icon.png", 302)
RedirectIcon == Resp(302, "", "", "/static/file-icon.png", NoData, {})

\* The thumbnail response: image/jpeg, cached for a week
JpegResp(data) ==
    Resp(200, "image/jpeg", "public, max-age=604800", "", data, {})

\* The upload page, with or without the "Uploaded" message
UploadPage(message) == Resp(200, "text/html", "", "", <<message>>, {})

\* The index page
IndexPage(files) == Resp(200, "text/html", "", "", NoData, files)


\* ------------------------------------------------------------------------
\* Requests the model sends
\* ------------------------------------------------------------------------

A_jpg == <<"a", ".", "j", "p", "g">>
V_MP4 == <<"v", ".", "M", "P", "4">>
N_txt == <<"n", ".", "t", "x", "t">>
DotDot == <<".", ".">>

ThumbRoute == <<"/">> \o ThumbDir \o <<"/">>

\* r.URL.Path of the requests routed to thumbHandler (the mux has cleaned it)
ThumbURLs ==
    { ThumbRoute,
      ThumbRoute \o A_jpg,
      ThumbRoute \o V_MP4,
      ThumbRoute \o ThumbPrefix \o A_jpg }

\* The folder, custom_name and file bytes of the uploads; the file's own
\* name is a.jpg in all of them.
FormValues ==
    { << EmptyStr, EmptyStr, <<"c2">> >>,
      << EmptyStr, EmptyStr, <<"bad">> >>,
      << EmptyStr, V_MP4, <<"c1">> >>,
      << EmptyStr, N_txt, <<"c1">> >>,
      << DotDot, EmptyStr, <<"c1">> >> }

UploadForm(method, hasFile, folder, customName, data) ==
    [method |-> method, hasFile |-> hasFile, folder |-> folder,
     customName |-> customName, filename |-> A_jpg, data |-> data]

\* The requests routed to uploadHandler
UploadForms ==
    { UploadForm("GET", FALSE, EmptyStr, EmptyStr, NoData),
      UploadForm("POST", FALSE, EmptyStr, EmptyStr, NoData) }
    \cup { UploadForm("POST", TRUE, v[1], v[2], v[3]) : v \in FormValues }

\* What can go wrong on the local disk: nothing, os.CreateTemp fails, or
\* the copy to the temp file fails.
LocalOutcomes == {"ok", "tempErr", "copyErr"}

\* The bucket when the server starts: empty, one picture whose thumbnail
\* was not stored, or a picture with its thumbnail and a video.
InitialBuckets ==
    { EmptyBucket,
      [k \in {A_jpg} |-> <<"c1">>],
      [k \in {A_jpg, ThumbPrefix \o A_jpg, V_MP4} |->
          IF k = ThumbPrefix \o A_jpg THEN <<"T", "c1">> ELSE <<"c1">>] }

\* 2. Determine Path (Folder + Custom Name)
UploadPath(folder, customName, filename) ==
    LET name == IF customName = EmptyStr THEN filename ELSE customName
    IN  IF folder # EmptyStr THEN Join(folder, name) ELSE name

\* The names the handlers are given by these requests
RequestNames ==
    { TrimPrefix(url, ThumbRoute) : url \in ThumbURLs }
    \cup { UploadPath(f.folder, f.customName, f.filename) : f \in UploadForms }

\* hasSuffix(name, ".mp4", ".mov", ".mkv", ".webm"), per request name
IsVideo == [name \in RequestNames |-> hasSuffix(name, VideoExts)]

\* hasSuffix(name, ".jpg", ".jpeg", ".png", ".gif", ".webp"), per request name
IsImage == [name \in RequestNames |-> hasSuffix(name, ImageExts)]

\* getThumbPath, per request name
ThumbPathOf == [name \in RequestNames |-> getThumbPath(name)]

\* ------------------------------------------------------------------------
\* State
\* ------------------------------------------------------------------------

\* The goroutines that serve requests
Procs == {1, 2}

VARIABLES
    store,          \* bkt: object name -> bytes, for the objects that exist
    pc,             \* where each handler goroutine is
    originalName,   \* thumbHandler: originalName
    thumbB2Path,    \* thumbHandler: thumbB2Path
    tmpOriginal,    \* thumbHandler: the bytes downloaded to the temp file
    thumbData,      \* thumbHandler: thumbData
    objectPath,     \* uploadHandler: objectPath
    tmpFile,        \* uploadHandler: the bytes of the uploaded file
    obs,            \* what each request in flight has done so far
    finished,       \* the request that returned in the last step, if one
                    \* did: its locals, what it did, the response it wrote
    lastWritten,    \* per object name: the bytes of the last write that
                    \* took effect
    nreq            \* requests started so far

vars == << store, pc, originalName, thumbB2Path, tmpOriginal, thumbData,
           objectPath, tmpFile, obs, finished, lastWritten, nreq >>

NoObs ==
    [probe |-> "none", attrs |-> "none", codec |-> FALSE, decode |-> "none",
     ffmpeg |-> "none", pwrite |-> "none", twrite |-> "none", over |-> "none"]

\* The record of a returned request: name is the name it was about, key
\* the thumbnail key it computed, input the bytes it worked on.
Finished(handler, name, key, input, tdata, response, o, failed) ==
    [handler |-> handler, name |-> name, key |-> key, input |-> input,
     thumbData |-> tdata, resp |-> response, obs |-> o, attrFailed |-> failed]

NoneFinished ==
    Finished("none", EmptyStr, EmptyStr, NoData, NoData, NoResp, NoObs, {})

Init ==
    /\ store \in InitialBuckets
    /\ lastWritten = store
    /\ pc = [p \in Procs |-> "idle"]
    /\ originalName = [p \in Procs |-> EmptyStr]
    /\ thumbB2Path = [p \in Procs |-> EmptyStr]
    /\ tmpOriginal = [p \in Procs |-> NoData]
    /\ thumbData = [p \in Procs |-> NoData]
    /\ objectPath = [p \in Procs |-> EmptyStr]
    /\ tmpFile = [p \in Procs |-> NoData]
    /\ obs = [p \in Procs |-> NoObs]
    /\ finished = NoneFinished
    /\ nreq = 0

\* A request is taken by the first goroutine that is free
Free(p) ==
    /\ pc[p] = "idle"
    /\ nreq < MaxReq
    /\ \A q \in Procs : q < p => pc[q] # "idle"

\* The handler of goroutine p returns: its locals are gone, the request is
\* recorded.
Return(p, rec) ==
    /\ pc' = [pc EXCEPT ![p] = "idle"]
    /\ originalName' = [originalName EXCEPT ![p] = EmptyStr]
    /\ thumbB2Path' = [thumbB2Path EXCEPT ![p] = EmptyStr]
    /\ tmpOriginal' = [tmpOriginal EXCEPT ![p] = NoData]
    /\ thumbData' = [thumbData EXCEPT ![p] = NoData]
    /\ objectPath' = [objectPath EXCEPT ![p] = EmptyStr]
    /\ tmpFile' = [tmpFile EXCEPT ![p] = NoData]
    /\ obs' = [obs EXCEPT ![p] = NoObs]
    /\ finished' = rec

\* The record of a write that took effect
Written(lw, name, data, wres) ==
    IF wres = "ok"
    THEN [k \in DOMAIN lw \cup {name} |-> IF k = name THEN data ELSE lw[k]]
    ELSE lw

\* thumbHandler returns with this response
ThumbReturn(p, o, tdata, response) ==
    Return(p, Finished("thumb", originalName[p], thumbB2Path[p], tmpOriginal[p],
                       tdata, response, o, {}))

\* uploadHandler returns with this response
UploadReturn(p, path, key, input, o, tdata, response) ==
    Return(p, Finished("upload", path, key, input, tdata, response, o, {}))

\* ------------------------------------------------------------------------
\* thumbHandler
\* ------------------------------------------------------------------------

\* 1. The original name from the URL; 2. where the thumbnail should be
ThumbStart(p, url) ==
    /\ Free(p)
    /\ nreq' = nreq + 1
    /\ LET name == TrimPrefix(url, ThumbRoute) IN
       IF name = EmptyStr
       THEN Return(p, Finished("thumb", name, EmptyStr, NoData, NoData,
                               NotFound, NoObs, {}))
       ELSE /\ pc' = [pc EXCEPT ![p] = "probe"]
            /\ originalName' = [originalName EXCEPT ![p] = name]
            /\ thumbB2Path' = [thumbB2Path EXCEPT ![p] = ThumbPathOf[name]]
            /\ UNCHANGED << tmpOriginal, thumbData, objectPath, tmpFile, obs >>
            /\ finished' = NoneFinished
    /\ UNCHANGED << store, lastWritten >>

\* A probe that finds nothing, whatever is stored
Probe_AlwaysMiss(bucket, key, attrsOK) ==
    IF ~Exists(bucket, key) THEN "miss" ELSE "error"

\* 3. thumbObj.Attrs: "hit" when it returns no error; an error is taken
\* for a miss whether the object is absent ("miss") or not ("error")
Probe(bucket, key, attrsOK) ==
    IF ~Exists(bucket, key) THEN "miss"
    ELSE IF attrsOK THEN "hit" ELSE "error"

ThumbProbe(p, attrsOK) ==
    /\ pc[p] = "probe"
    /\ LET found == Probe(store, thumbB2Path[p], attrsOK) IN
       /\ pc' = [pc EXCEPT ![p] = IF found = "hit" THEN "serve" ELSE "download"]
       /\ obs' = [obs EXCEPT
                    ![p].probe = found,
                    ![p].attrs = IF ~Exists(store, thumbB2Path[p]) THEN "none"
                                 ELSE IF attrsOK THEN "ok" ELSE "err"]
    /\ UNCHANGED << store, lastWritten, originalName, thumbB2Path, tmpOriginal,
                    thumbData, objectPath, tmpFile, nreq >>
    /\ finished' = NoneFinished

\* Download the original to a temp file
ThumbDownload(p, local) ==
    /\ pc[p] = "download"
    /\ IF local = "tempErr"
       THEN ThumbReturn(p, obs[p], NoData, HttpError("temp error", 500))
       ELSE IF local = "copyErr" \/ ~Exists(store, originalName[p])
       THEN ThumbReturn(p, obs[p], NoData, HttpError("download failed", 500))
       ELSE /\ pc' = [pc EXCEPT ![p] = "generate"]
            /\ tmpOriginal' = [tmpOriginal EXCEPT ![p] = store[originalName[p]]]
            /\ UNCHANGED << originalName, thumbB2Path, thumbData, objectPath,
                            tmpFile, obs >>
            /\ finished' = NoneFinished
    /\ UNCHANGED << store, lastWritten, nreq >>

\* The generation step with the image branch serving the original bytes
\* when they do not decode
ThumbGenResult_ServeOriginal(name, data, vres) ==
    IF IsVideo[name]
    THEN LET r == generateVideoThumbnail(data, vres) IN
         IF r.err THEN [outcome |-> "redirect", data |-> NoData]
         ELSE [outcome |-> "ok", data |-> r.data]
    ELSE IF ~Decodable(data) THEN [outcome |-> "ok", data |-> data]
    ELSE [outcome |-> "ok", data |-> ResizeEncode(data)]

\* The generation step with a failed video thumbnail answered by an error
ThumbGenResult_VideoError(name, data, vres) ==
    IF IsVideo[name]
    THEN LET r == generateVideoThumbnail(data, vres) IN
         IF r.err THEN [outcome |-> "decodeFailed", data |-> NoData]
         ELSE [outcome |-> "ok", data |-> r.data]
    ELSE IF ~Decodable(data) THEN [outcome |-> "decodeFailed", data |-> NoData]
    ELSE [outcome |-> "ok", data |-> ResizeEncode(data)]

\* The video and image branches of the miss path: what the handler does
\* next ("ok": go on to the write) and the thumbnail bytes
ThumbGenResult(name, data, vres) ==
    IF IsVideo[name]
    THEN LET r == generateVideoThumbnail(data, vres) IN
         IF r.err THEN [outcome |-> "redirect", data |-> NoData]
         ELSE [outcome |-> "ok", data |-> r.data]
    ELSE IF ~Decodable(data) THEN [outcome |-> "decodeFailed", data |-> NoData]
    ELSE [outcome |-> "ok", data |-> ResizeEncode(data)]

ThumbGenerate(p, vres) ==
    /\ pc[p] = "generate"
    /\ LET video == IsVideo[originalName[p]]
           g == ThumbGenResult(originalName[p], tmpOriginal[p], vres)
           o == [obs[p] EXCEPT
                   !.ffmpeg = IF video THEN vres ELSE "none",
                   !.codec = ~video \/ vres # "fail",
                   !.decode = IF video THEN "none"
                              ELSE IF Decodable(tmpOriginal[p]) THEN "ok"
                              ELSE "fail"]
       IN
       IF g.outcome = "redirect"
       THEN ThumbReturn(p, o, NoData, RedirectIcon)
       ELSE IF g.outcome = "decodeFailed"
       THEN ThumbReturn(p, o, NoData, HttpError("decode failed", 500))
       ELSE /\ pc' = [pc EXCEPT ![p] = "write"]
            /\ thumbData' = [thumbData EXCEPT ![p] = g.data]
            /\ obs' = [obs EXCEPT ![p] = o]
            /\ UNCHANGED << originalName, thumbB2Path, tmpOriginal, objectPath,
                            tmpFile >>
            /\ finished' = NoneFinished
    /\ UNCHANGED << store, lastWritten, nreq >>

\* Whether the write finds an object under the key
Over(lw, key) == IF key \in DOMAIN lw THEN "object" ELSE "absent"

\* The response after the write, a failed write answered by an error
WriteResponse_FailOnErr(data, wres) ==
    IF wres = "ok" THEN JpegResp(data) ELSE HttpError("failed", 500)

\* The response after the write: the generated bytes, whatever the write did
WriteResponse(data, wres) == JpegResp(data)

\* Upload to the "thumb/" folder, then answer with the generated bytes
ThumbWrite(p, wres) ==
    /\ pc[p] = "write"
    /\ store' = StorePut(store, thumbB2Path[p], thumbData[p], wres)
    /\ lastWritten' = Written(lastWritten, thumbB2Path[p], thumbData[p], wres)
    /\ ThumbReturn(p, [obs[p] EXCEPT !.twrite = wres,
                                     !.over = Over(lastWritten, thumbB2Path[p])],
                   thumbData[p], WriteResponse(thumbData[p], wres))
    /\ UNCHANGED nreq

\* Serve the existing thumbnail
ThumbServe(p) ==
    /\ pc[p] = "serve"
    /\ ThumbReturn(p, obs[p], NoData, JpegResp(store[thumbB2Path[p]]))
    /\ UNCHANGED << store, lastWritten, nreq >>

\* ------------------------------------------------------------------------
\* uploadHandler
\* ------------------------------------------------------------------------

\* GET shows the form; POST reads the file to a temp file
UploadStart(p, form, local) ==
    /\ Free(p)
    /\ nreq' = nreq + 1
    /\ LET path == UploadPath(form.folder, form.customName, form.filename) IN
       IF form.method = "GET"
       THEN UploadReturn(p, EmptyStr, EmptyStr, NoData, NoObs, NoData,
                         UploadPage(""))
       ELSE IF ~form.hasFile
       THEN UploadReturn(p, EmptyStr, EmptyStr, NoData, NoObs, NoData,
                         HttpError("read error", 400))
       ELSE IF local = "tempErr"
       THEN UploadReturn(p, path, EmptyStr, NoData, NoObs, NoData,
                         HttpError("temp error", 500))
       ELSE IF local = "copyErr"
       THEN UploadReturn(p, path, EmptyStr, NoData, NoObs, NoData,
                         HttpError("copy error", 500))
       ELSE /\ pc' = [pc EXCEPT ![p] = "putOriginal"]
            /\ objectPath' = [objectPath EXCEPT ![p] = path]
            /\ tmpFile' = [tmpFile EXCEPT ![p] = form.data]
            /\ UNCHANGED << originalName, thumbB2Path, tmpOriginal, thumbData,
                            obs >>
            /\ finished' = NoneFinished
    /\ UNCHANGED << store, lastWritten >>

\* 4. Upload Original
UploadOriginal(p, wres) ==
    /\ pc[p] = "putOriginal"
    /\ store' = StorePut(store, objectPath[p], tmpFile[p], wres)
    /\ lastWritten' = Written(lastWritten, objectPath[p], tmpFile[p], wres)
    /\ IF wres = "writeErr"
       THEN UploadReturn(p, objectPath[p], EmptyStr, tmpFile[p],
                         [obs[p] EXCEPT !.pwrite = wres], NoData,
                         HttpError("upload failed", 500))
       ELSE /\ pc' = [pc EXCEPT ![p] = "putThumb"]
            /\ obs' = [obs EXCEPT ![p].pwrite = wres]
            /\ UNCHANGED << originalName, thumbB2Path, tmpOriginal, thumbData,
                            objectPath, tmpFile >>
            /\ finished' = NoneFinished
    /\ UNCHANGED nreq

\* Thumbnail generation of the upload that never decides to write
UploadGenResult_Never(path, data, vres) ==
    [shouldGen |-> FALSE, data |-> NoData]

\* 5. Generate Thumbnail: shouldGen and thumbData
UploadGenResult(path, data, vres) ==
    IF IsVideo[path]
    THEN LET r == generateVideoThumbnail(data, vres) IN
         [shouldGen |-> ~r.err, data |-> r.data]
    ELSE IF IsImage[path]
    THEN IF Decodable(data)
         THEN [shouldGen |-> TRUE, data |-> ResizeEncode(data)]
         ELSE [shouldGen |-> FALSE, data |-> NoData]
    ELSE [shouldGen |-> FALSE, data |-> NoData]

\* 5. Generate the thumbnail, write it when shouldGen, report the upload
UploadThumb(p, vres, wres) ==
    /\ pc[p] = "putThumb"
    /\ LET video == IsVideo[objectPath[p]]
           image == ~video /\ IsImage[objectPath[p]]
           g == UploadGenResult(objectPath[p], tmpFile[p], vres)
           thumbName == ThumbPathOf[objectPath[p]]
           o == [obs[p] EXCEPT
                   !.ffmpeg = IF video THEN vres ELSE "none",
                   !.codec = (video /\ vres # "fail") \/ image,
                   !.decode = IF ~image THEN "none"
                              ELSE IF Decodable(tmpFile[p]) THEN "ok"
                              ELSE "fail",
                   !.twrite = IF g.shouldGen THEN wres ELSE "none",
                   !.over = IF g.shouldGen THEN Over(lastWritten, thumbName)
                            ELSE "none"]
       IN
       /\ IF g.shouldGen
          THEN /\ store' = StorePut(store, thumbName, g.data, wres)
               /\ lastWritten' = Written(lastWritten, thumbName, g.data, wres)
          ELSE UNCHANGED << store, lastWritten >>
       /\ UploadReturn(p, objectPath[p],
                       IF g.shouldGen THEN thumbName ELSE EmptyStr,
                       tmpFile[p], o, g.data, UploadPage("Uploaded"))
    /\ UNCHANGED nreq

\* ------------------------------------------------------------------------
\* indexHandler
\* ------------------------------------------------------------------------

\* How many objects' Attrs fail during one listing
MaxAttrFail == 1

MediaExts == ImageExts \cup VideoExts

\* One entry of the page: the name and the thumbnail URL
FileEntry(name) ==
    [Name |-> name,
     ThumbURL |-> IF hasSuffix(name, MediaExts) THEN ThumbRoute \o name
                  ELSE <<"/static/file-icon.png">>]

\* The loop of the listing with the thumb/ filter left out
ListFiles_NoFilter(bucket, failing) ==
    { FileEntry(name) : name \in { n \in DOMAIN bucket : n \notin failing } }

\* The loop of the listing: thumb/ objects and objects whose Attrs fail
\* are skipped
ListFiles(bucket, failing) ==
    { FileEntry(name) :
        name \in { n \in DOMAIN bucket :
                     ~HasPrefix(n, ThumbPrefix) /\ n \notin failing } }

indexHandler(p, failing, iterErr) ==
    /\ Free(p)
    /\ nreq' = nreq + 1
    /\ Return(p, Finished("index", EmptyStr, EmptyStr, NoData, NoData,
                          IF iterErr THEN HttpError("list error", 500)
                          ELSE IndexPage(ListFiles(store, failing)),
                          NoObs, failing))
    /\ UNCHANGED << store, lastWritten >>

\* ------------------------------------------------------------------------
\* The server
\* ------------------------------------------------------------------------

\* One step of the handler that goroutine p is running
HandlerStep(p) ==
    \/ \E attrsOK \in BOOLEAN : ThumbProbe(p, attrsOK)
    \/ \E local \in LocalOutcomes : ThumbDownload(p, local)
    \/ \E vres \in VideoOutcomes : ThumbGenerate(p, vres)
    \/ \E wres \in WriteOutcomes : ThumbWrite(p, wres)
    \/ ThumbServe(p)
    \/ \E wres \in WriteOutcomes : UploadOriginal(p, wres)
    \/ \E vres \in VideoOutcomes, wres \in WriteOutcomes : UploadThumb(p, vres, wres)

\* A request arrives and goroutine p starts its handler
Accept(p) ==
    \/ \E url \in ThumbURLs : ThumbStart(p, url)
    \/ \E form \in UploadForms, local \in LocalOutcomes : UploadStart(p, form, local)
    \/ \E failing \in { f \in SUBSET (DOMAIN store) : Cardinality(f) <= MaxAttrFail },
          iterErr \in BOOLEAN :
          indexHandler(p, failing, iterErr)

Next == \E p \in Procs : Accept(p) \/ HandlerStep(p)

Spec == Init /\ [][Next]_vars

\* ------------------------------------------------------------------------
\* Properties
\* ------------------------------------------------------------------------

\* Goroutine p is inside thumbHandler, past the call of getThumbPath
InThumbHandler(p) == pc[p] \in {"probe", "download", "generate", "write", "serve"}

\* The upload that just returned called getThumbPath
UploadMappedKey == finished.handler = "upload" /\ finished.key # EmptyStr

\* The thumbnail request that just returned went down the generation path
GenerationPath ==
    finished.handler = "thumb" /\ finished.obs.probe \in {"miss", "error"}

\* C1: for every name n that thumbHandler or uploadHandler passes to
\* getThumbPath, the key is exactly "thumb/" + n without its final
\* extension + ".jpg".
C1_KeyIsThumbPlusStripped ==
    LET stripExt(n) == SubSeq(n, 1, Len(n) - Len(Ext(n)))
        thumbnailKey(n) == ThumbPrefix \o stripExt(n) \o DotJpg
    IN  /\ \A p \in Procs :
              InThumbHandler(p) => thumbB2Path[p] = thumbnailKey(originalName[p])
        /\ UploadMappedKey => finished.key = thumbnailKey(finished.name)

\* C10: the name that thumbHandler or uploadHandler passes to getThumbPath
\* never starts with "thumb/".
C10_NeverOnThumbNames ==
    /\ \A p \in Procs : InThumbHandler(p) => ~HasPrefix(originalName[p], ThumbPrefix)
    /\ UploadMappedKey => ~HasPrefix(finished.name, ThumbPrefix)

\* C2: the listing of the index page holds no name under "thumb/" and holds
\* every other object of the bucket whose Attrs succeeded, whatever uploads
\* and thumbnail requests have stored under thumb/.
C2_ListingHidesThumbs ==
    (finished.handler = "index" /\ finished.resp.status = 200) =>
        LET listed == { f.Name : f \in finished.resp.files } IN
        /\ \A n \in listed : ~HasPrefix(n, ThumbPrefix)
        /\ listed = { n \in DOMAIN store :
                        ~HasPrefix(n, ThumbPrefix) /\ n \notin finished.attrFailed }

\* C2 happens: an upload has stored thumb/a.jpg next to a.jpg, and the page
\* lists a.jpg alone.
C2_Witness ==
    /\ finished.handler = "index"
    /\ finished.resp.status = 200
    /\ finished.attrFailed = {}
    /\ Exists(store, ThumbPrefix \o A_jpg)
    /\ store[ThumbPrefix \o A_jpg] = <<"T", "c2">>
    /\ { f.Name : f \in finished.resp.files } = {A_jpg}

\* C7: a thumbnail request for a video name whose ffmpeg run fails is
\* answered by the redirect to the placeholder icon, not by a server
\* error, and writes no object.
C7_VideoFailureRedirects ==
    (finished.handler = "thumb" /\ finished.obs.ffmpeg = "fail") =>
        /\ finished.resp = RedirectIcon
        /\ finished.resp.status = 302
        /\ finished.obs.twrite = "none"
        /\ finished.thumbData = NoData

\* C7 happens: v.MP4 is stored, has no thumbnail, and ffmpeg fails on it.
C7_Witness ==
    /\ finished.handler = "thumb"
    /\ finished.name = V_MP4
    /\ finished.input = <<"c1">>
    /\ finished.obs.probe = "miss"
    /\ finished.obs.ffmpeg = "fail"
    /\ finished.resp.loc = "/static/file-icon.png"
    /\ ~Exists(store, finished.key)

\* C8: when the thumbnail was generated, the response is the generated
\* bytes as image/jpeg with the one-week Cache-Control whether the write
\* to the bucket succeeded or failed; a failed write leaves the bucket as
\* it was.
C8_WriteFailureStillServes ==
    (finished.handler = "thumb" /\ finished.obs.twrite # "none") =>
        /\ finished.thumbData # NoData
        /\ finished.resp.status = 200
        /\ finished.resp.ctype = "image/jpeg"
        /\ finished.resp.cache = "public, max-age=604800"
        /\ finished.resp.body = finished.thumbData
        /\ (finished.obs.twrite # "ok" /\ finished.obs.over = "absent")
              => ~Exists(store, finished.key)

\* C8 happens: the write of the thumbnail of a.jpg fails and the request
\* is answered with the thumbnail.
C8_Witness ==
    /\ finished.handler = "thumb"
    /\ finished.name = A_jpg
    /\ finished.obs.twrite = "writeErr"
    /\ finished.resp = JpegResp(<<"T", "c1">>)
    /\ ~Exists(store, ThumbPrefix \o A_jpg)

C5_UploadLeavesBoth ==
    (/\ finished.handler = "upload"
     /\ finished.resp = UploadPage("Uploaded")
     /\ (IsVideo[finished.name] \/ IsImage[finished.name]))
        => /\ Exists(store, finished.name)
           /\ Exists(store, ThumbPathOf[finished.name])

\* C5: when the upload is reported successful, the object is in the bucket
\* if its write took effect; a thumbnail was written exactly when one could
\* be generated (the image decoded, ffmpeg gave a frame), and it is in the
\* bucket under the key getThumbPath returned if that write took effect.
C5_UploadLeavesWhatWasWritten ==
    (finished.handler = "upload" /\ finished.resp = UploadPage("Uploaded")) =>
        LET generated == \/ finished.obs.decode = "ok"
                         \/ finished.obs.ffmpeg \in {"raw", "ok"}
        IN  /\ finished.obs.pwrite \in {"ok", "closeErr"}
            /\ finished.obs.pwrite = "ok" => Exists(store, finished.name)
            /\ generated <=> finished.obs.twrite # "none"
            /\ generated <=> finished.key # EmptyStr
            /\ generated => finished.key = ThumbPathOf[finished.name]
            /\ finished.obs.twrite = "ok"
                  => /\ Exists(store, finished.key)
                     /\ store[finished.key] = finished.thumbData
            /\ (finished.obs.twrite \in {"writeErr", "closeErr"}
                /\ finished.obs.over = "absent")
                  => ~Exists(store, finished.key)

\* C5 happens: a.jpg is uploaded into the empty bucket and both objects are
\* stored.
C5_Witness ==
    /\ finished.handler = "upload"
    /\ finished.resp = UploadPage("Uploaded")
    /\ finished.name = A_jpg
    /\ finished.obs.over = "absent"
    /\ DOMAIN store = {A_jpg, ThumbPrefix \o A_jpg}
    /\ store[A_jpg] = <<"c2">>
    /\ store[ThumbPrefix \o A_jpg] = <<"T", "c2">>

C9_EveryMissWritesAndKeyIsStored ==
    (/\ finished.handler = "thumb"
     /\ finished.obs.probe = "miss"
     /\ finished.obs.decode = "ok")
        => /\ finished.obs.twrite # "none"
           /\ finished.resp.body = finished.thumbData
           /\ Exists(store, finished.key)

\* C9: no handler in flight waits for another; a request that saw the miss
\* and generated a thumbnail writes it and returns its own bytes, whatever
\* the other request has written meanwhile; the bucket holds under every
\* name the bytes of the last write that took effect, whole, and after a
\* request's write took effect the key holds that request's bytes; the key
\* stays absent only while no write to it has taken effect.
C9_LastWriteWins ==
    /\ \A p \in Procs : pc[p] # "idle" => ENABLED HandlerStep(p)
    /\ store = lastWritten
    /\ GenerationPath =>
          /\ finished.obs.codec => (finished.thumbData # NoData
                                       <=> finished.obs.twrite # "none")
          /\ finished.obs.twrite # "none"
                => finished.resp.body = finished.thumbData
          /\ finished.obs.twrite = "ok"
                => /\ Exists(store, finished.key)
                   /\ store[finished.key] = finished.thumbData
          /\ (finished.obs.twrite \in {"writeErr", "closeErr"}
              /\ finished.obs.over = "absent")
                => ~Exists(store, finished.key)

\* C9 happens: two requests for the thumbnail of a.jpg both saw it missing;
\* one has written it, and the other has now written over it and returned
\* its own bytes.
C9_Witness ==
    /\ finished.handler = "thumb"
    /\ finished.name = A_jpg
    /\ finished.obs.probe = "miss"
    /\ finished.obs.twrite = "ok"
    /\ finished.obs.over = "object"
    /\ finished.resp.body = <<"T", "c1">>
    /\ DOMAIN store = {A_jpg, ThumbPrefix \o A_jpg}
    /\ store[A_jpg] = <<"c1">>
    /\ store[ThumbPrefix \o A_jpg] = <<"T", "c1">>
    /\ nreq = 2

====
